---- MODULE Spec2Model ----
(***************************************************************************)
(* Historical-extent workflow of the waterbodies repository                *)
(* (notebooks/HistoricalExtent/TurnWaterObservationsIntoWaterbodyPolygons):*)
(* per-tile polygon generation, merging at tile boundaries, attribute      *)
(* filters, geohash identifiers, ordinals and the write to the database.   *)
(*                                                                         *)
(* Geometry is kept in whole pixels of the 30 m grid.  A raster region is  *)
(* run-length encoded as a set of pixel rectangles [x0, y0, x1, y1] with   *)
(* x0 < x1 and y0 < y1 that do not overlap; a polygon is the set of        *)
(* rectangles of one edge-connected region.                                *)
(***************************************************************************)
EXTENDS Integers, Sequences, FiniteSets, TLC

\* ------------------------------------------------------------------ bounds
TilesX == 2
TilesY == 2
TileSize == 3200
MaxLakes == 2
MaxRuns == 2
NumDatasets == 5
MaxParallelSteps == 3
MaxExtractions == 3

\* ------------------------------------------------------- program constants
PixelSize == 30
PixelArea == 900
BufferM == 30
MinAreaM2 == 4500
MaxLengthM == 150 * 1000
\* the wetness thresholds 0.1 and 0.05, in percent
detection_threshold == 10
extent_threshold == 5
DefaultMinPolygonSize == 6
max_polygon_size == 1000
GeohashPrecision == 10
\* a geohash of 10 characters has 25 longitude and 25 latitude bits: a cell
\* of about 1.2 m by 0.6 m, that is 25 by 50 cells to the 30 m pixel
CoordBits == 25
LonCellsPerPixel == 25
LatCellsPerPixel == 50

\* ---------------------------------------------------------------- helpers
Min(a, b) == IF a < b THEN a ELSE b
Max(a, b) == IF a < b THEN b ELSE a

Rect(x0, y0, x1, y1) == [x0 |-> x0, y0 |-> y0, x1 |-> x1, y1 |-> y1]

\* ------------------------------------------------------------------- grid
Tiles == (0 .. TilesX - 1) \X (0 .. TilesY - 1)

\* gridspec.tile_geobox(tile_index).extent, in pixels
TileExtent(t) ==
    Rect(t[1] * TileSize, t[2] * TileSize, (t[1] + 1) * TileSize, (t[2] + 1) * TileSize)

\* the part of rectangle r inside tile t (x1 <= x0 or y1 <= y0: nothing)
Clip(r, t) ==
    LET e == TileExtent(t) IN
    Rect(Max(r.x0, e.x0), Max(r.y0, e.y0), Min(r.x1, e.x1), Min(r.y1, e.y1))

NonEmpty(r) == r.x0 < r.x1 /\ r.y0 < r.y1

\* ------------------------------------------------------- polygon geometry
\* two rectangles of one raster belong to the same region when they share
\* a border of positive length (4-connectivity) or overlap
Adjacent(a, b) ==
    \/ /\ (a.x1 = b.x0 \/ b.x1 = a.x0)
       /\ Max(a.y0, b.y0) < Min(a.y1, b.y1)
    \/ /\ (a.y1 = b.y0 \/ b.y1 = a.y0)
       /\ Max(a.x0, b.x0) < Min(a.x1, b.x1)
    \/ /\ Max(a.x0, b.x0) < Min(a.x1, b.x1)
       /\ Max(a.y0, b.y0) < Min(a.y1, b.y1)

RECURSIVE Grow(_, _)
Grow(comp, rest) ==
    LET next == {r \in rest : \E c \in comp : Adjacent(c, r)} IN
    IF next = {} THEN comp ELSE Grow(comp \cup next, rest \ next)

\* the edge-connected regions of a set of rectangles
RECURSIVE Components(_)
Components(S) ==
    IF S = {} THEN {}
    ELSE LET r == CHOOSE r \in S : TRUE
             c == Grow({r}, S \ {r})
         IN {c} \cup Components(S \ c)

RectPixels(r) == (r.x1 - r.x0) * (r.y1 - r.y0)

\* number of pixels of a polygon
RECURSIVE PixelCount(_)
PixelCount(p) ==
    IF p = {} THEN 0
    ELSE LET r == CHOOSE r \in p : TRUE IN RectPixels(r) + PixelCount(p \ {r})

BBox(p) ==
    Rect(CHOOSE v \in {r.x0 : r \in p} : \A r \in p : v <= r.x0,
         CHOOSE v \in {r.y0 : r \in p} : \A r \in p : v <= r.y0,
         CHOOSE v \in {r.x1 : r \in p} : \A r \in p : v >= r.x1,
         CHOOSE v \in {r.y1 : r \in p} : \A r \in p : v >= r.y1)

\* ------------------------------------------------------------ the inputs
\* Water of the all-time summary raster: a menu of lakes, placed relative
\* to the tile size.  Lakes of the menu do not overlap one another.
Lakes == {"east", "corner", "split", "pond4", "pond5", "river", "island", "rim", "outer",
          "canal", "faint", "twin", "lagoon", "shore"}

LakeRects(l) ==
    CASE l = "east"   -> {Rect(TileSize - 4, 100, TileSize + 4, 102)}
      [] l = "corner" -> {Rect(TileSize - 3, TileSize - 3, TileSize + 3, TileSize + 3)}
      [] l = "split"  -> {Rect(TileSize - 1, 200, TileSize + 4, 202)}
      [] l = "pond4"  -> {Rect(60, 60, 62, 62)}
      [] l = "pond5"  -> {Rect(50, 50, 55, 51)}
      [] l = "river"  -> {Rect(600, 0, 5800, 1)}
      [] l = "island" -> {Rect(1003, 1003, 1006, 1006)}
      [] l = "rim"    -> {Rect(1002, 1002, 1007, 1003), Rect(1002, 1006, 1007, 1007),
                          Rect(1002, 1003, 1003, 1006), Rect(1006, 1003, 1007, 1006)}
      [] l = "outer"  -> {Rect(1000, 1000, 1009, 1001), Rect(1000, 1008, 1009, 1009),
                          Rect(1000, 1001, 1001, 1008), Rect(1008, 1001, 1009, 1008)}
      [] l = "canal"  -> {Rect(2000, 100, 2001, 1300)}
      [] l = "faint"  -> {Rect(300, 300, 304, 302)}
      [] l = "twin"   -> {Rect(400, 400, 403, 402), Rect(403, 400, 406, 402),
                          Rect(406, 400, 409, 402), Rect(409, 400, 412, 402)}
      [] l = "lagoon" -> {Rect(96 + 4 * k, 3300, 100 + 4 * k, 3302) :
                             k \in 0 .. 5}
      [] l = "shore"  -> {Rect(TileSize - 5, 500, TileSize - 1, 502)}

\* frequency of water over the valid observations of the pixels of
\* rectangle r of lake l, in percent: the faint lake and the middle of
\* the twin lake are wet less often than the detection threshold asks,
\* the tail of the twin lake less often than the extent threshold asks
Frequency(l, r) ==
    CASE l = "faint" -> 7
      [] l = "twin" /\ r.x0 = 403 -> 7
      [] l = "twin" /\ r.x0 = 409 -> 3
      [] OTHER -> 50

\* value of the HydroSHEDS land mask at the pixels of rectangle r: land
\* but for a strip along the lagoon, where every four columns have one
\* of the values 1, 2, 3, 255, 0 and 4, and an inland sink round the ponds
HydroShedsStrip == <<1, 2, 3, 255, 0, 4>>

tile_hydrosheds_land_mask(r) ==
    IF /\ r.y0 >= 3250 /\ r.y0 < 3350
       /\ r.x0 >= 96 /\ r.x0 < 96 + 4 * Len(HydroShedsStrip)
    THEN HydroShedsStrip[((r.x0 - 96) \div 4) + 1]
    ELSE IF r.x0 >= 40 /\ r.x0 < 70 /\ r.y0 >= 40 /\ r.y0 < 70 THEN 3
    ELSE 1

\* a mask that keeps every pixel that is not ocean
tile_raster_not_ocean(v) == IF v # 2 THEN 1 ELSE 0

\* np.logical_or(mask == 1, mask == 3).astype(int)
tile_raster(v) == IF v = 1 \/ v = 3 THEN 1 ELSE 0

\* the pixels of the summary raster that are on land and wet at least as
\* often as the threshold asks
WetOnLand(w, threshold) ==
    UNION {{r \in LakeRects(l) : /\ Frequency(l, r) >= threshold
                                 /\ tile_raster(tile_hydrosheds_land_mask(r)) = 1} : l \in w}

\* the water that gives the polygons their shape
Water(w) == WetOnLand(w, extent_threshold)

Worlds == {w \in SUBSET Lakes : Cardinality(w) <= MaxLakes}

\* --------------------------------------------------------- tile processor
\* rectangle r cut to the columns [x0, x1)
CutX(r, x0, x1) == Rect(Max(r.x0, x0), r.y0, Min(r.x1, x1), r.y1)

\* rectangle r cut to the rows [y0, y1)
CutY(r, y0, y1) == Rect(r.x0, Max(r.y0, y0), r.x1, Min(r.y1, y1))

\* a polygon over the size bound is left out instead of being segmented
SegmentDropsOversized(p) == IF PixelCount(p) <= max_polygon_size THEN {p} ELSE {}

\* A polygon of more than max_polygon_size pixels is segmented: it is cut
\* into cells of at most max_polygon_size pixels, as high as the bound
\* allows and as wide as the bound allows for that height.
Segment(p) ==
    IF PixelCount(p) <= max_polygon_size THEN {p}
    ELSE LET b == BBox(p)
             h == Min(b.y1 - b.y0, max_polygon_size)
             w == Max(1, max_polygon_size \div h)
             nx == ((b.x1 - b.x0) + w - 1) \div w
             ny == ((b.y1 - b.y0) + h - 1) \div h
             cell(kx, ky) ==
                 {c \in {CutY(CutX(r, b.x0 + kx * w, b.x0 + (kx + 1) * w),
                              b.y0 + ky * h, b.y0 + (ky + 1) * h) : r \in p} : NonEmpty(c)}
         IN UNION {Components(cell(k[1], k[2])) : k \in (0 .. nx - 1) \X (0 .. ny - 1)}

\* polygons below the minimum pixel size are excluded
DropSmall(polys, min_polygon_size) ==
    {p \in polys : PixelCount(p) >= min_polygon_size}

\* the polygons of the pixels of tile t that are on land and wet at least
\* as often as the threshold asks
Vectorise(t, w, threshold) ==
    Components({c \in {Clip(r, t) : r \in WetOnLand(w, threshold)} : NonEmpty(c)})

\* two polygons have a pixel in common
Overlaps(p, q) ==
    \E a \in p, b \in q : /\ Max(a.x0, b.x0) < Min(a.x1, b.x1)
                          /\ Max(a.y0, b.y0) < Min(a.y1, b.y1)

\* the detection polygons are taken as they are
filter_by_intersection_to_detection(extent_polygons, detection_polygons) ==
    detection_polygons

\* the extent polygons that a detection polygon overlaps
filter_by_intersection(extent_polygons, detection_polygons) ==
    {e \in extent_polygons : \E d \in detection_polygons : Overlaps(e, d)}

\* the polygons of tile t before segmentation: where the water is comes
\* from the detection threshold, its shape from the extent threshold
LocatedPolygons(t, w) ==
    filter_by_intersection(Vectorise(t, w, extent_threshold),
                           Vectorise(t, w, detection_threshold))

\* the waterbody polygons of one tile: oversized polygons are segmented,
\* small ones are dropped
get_waterbodies(t, w, min_polygon_size) ==
    LET segmented == UNION {Segment(p) : p \in LocatedPolygons(t, w)}
    IN DropSmall(segmented, min_polygon_size)

\* ------------------------------------------------------ boundary stitcher
\* tile boundary buffered by 30 m on both sides: the closed outer square
\* less the open inner square
RingWidth == BufferM \div PixelSize

buffered_tile_boundary(t) ==
    LET e == TileExtent(t) IN
    [outer |-> Rect(e.x0 - RingWidth, e.y0 - RingWidth, e.x1 + RingWidth, e.y1 + RingWidth),
     inner |-> Rect(e.x0 + RingWidth, e.y0 + RingWidth, e.x1 - RingWidth, e.y1 - RingWidth)]

\* predicate="intersects": the closed sets share at least one point
RectIntersectsRing(r, ring) ==
    /\ r.x0 <= ring.outer.x1 /\ r.x1 >= ring.outer.x0
    /\ r.y0 <= ring.outer.y1 /\ r.y1 >= ring.outer.y0
    /\ ~ (/\ r.x0 > ring.inner.x0 /\ r.x1 < ring.inner.x1
          /\ r.y0 > ring.inner.y0 /\ r.y1 < ring.inner.y1)

\* the polygon is in the inner join with the buffered tile boundaries
OnTileBoundary(p) ==
    \E t \in Tiles : \E r \in p : RectIntersectsRing(r, buffered_tile_boundary(t))

\* the polygons exploded without the union: every polygon stays as it is
UnionExplodeNoUnion(polys) == polys

\* unary_union of the polygons, exploded into single-part polygons
UnionExplode(polys) == Components(UNION polys)

\* ------------------------------------------------------------- attributes
\* geometry.area, m2
area_m2(p) == PixelArea * PixelCount(p)

\* long side of the bounding rectangle, m
get_polygon_length(p) ==
    LET b == BBox(p) IN PixelSize * Max(b.x1 - b.x0, b.y1 - b.y0)

\* length of the border two rectangles share
Shared(a, b) ==
    IF (a.x1 = b.x0 \/ b.x1 = a.x0) /\ Max(a.y0, b.y0) < Min(a.y1, b.y1)
    THEN Min(a.y1, b.y1) - Max(a.y0, b.y0)
    ELSE IF (a.y1 = b.y0 \/ b.y1 = a.y0) /\ Max(a.x0, b.x0) < Min(a.x1, b.x1)
    THEN Min(a.x1, b.x1) - Max(a.x0, b.x0)
    ELSE 0

RECURSIVE SharedWith(_, _)
SharedWith(r, p) ==
    IF p = {} THEN 0
    ELSE LET q == CHOOSE q \in p : TRUE IN Shared(r, q) + SharedWith(r, p \ {q})

RECURSIVE PerimPixels(_, _)
PerimPixels(rest, p) ==
    IF rest = {} THEN 0
    ELSE LET r == CHOOSE r \in rest : TRUE IN
         2 * ((r.x1 - r.x0) + (r.y1 - r.y0)) - SharedWith(r, p \ {r})
             + PerimPixels(rest \ {r}, p)

\* geometry.length: the perimeter, holes included, m
perim_m(p) == PixelSize * PerimPixels(p, p)

\* ------------------------------------------------------------- identifier
RECURSIVE MomentX(_)
MomentX(p) ==
    IF p = {} THEN 0
    ELSE LET r == CHOOSE r \in p : TRUE IN
         RectPixels(r) * (r.x0 + r.x1) + MomentX(p \ {r})

RECURSIVE MomentY(_)
MomentY(p) ==
    IF p = {} THEN 0
    ELSE LET r == CHOOSE r \in p : TRUE IN
         RectPixels(r) * (r.y0 + r.y1) + MomentY(p \ {r})

\* geohash cell of the centroid: the centroid is MomentX / (2 * pixels),
\* MomentY / (2 * pixels), quantised to the cells of the last geohash bit
centroid(p) ==
    [x |-> (MomentX(p) * LonCellsPerPixel) \div (2 * PixelCount(p)),
     y |-> (MomentY(p) * LatCellsPerPixel) \div (2 * PixelCount(p))]

Bit(v, k) == (v \div (2 ^ k)) % 2

\* gh.encode(lat, lon, precision): the bits of longitude and latitude
\* interleaved, longitude first, five bits to the base-32 character
GeohashBit(lat, lon, b) ==
    IF b % 2 = 0 THEN Bit(lon, CoordBits - 1 - (b \div 2))
    ELSE Bit(lat, CoordBits - 1 - (b \div 2))

gh_encode(lat, lon, precision) ==
    [j \in 1 .. precision |->
        16 * GeohashBit(lat, lon, 5 * (j - 1)) + 8 * GeohashBit(lat, lon, 5 * (j - 1) + 1)
        + 4 * GeohashBit(lat, lon, 5 * (j - 1) + 2) + 2 * GeohashBit(lat, lon, 5 * (j - 1) + 3)
        + GeohashBit(lat, lon, 5 * (j - 1) + 4)]

\* the geohash of the lower corner of the bounds instead of the centroid
uid_of_bounds_corner(p) ==
    gh_encode(BBox(p).y0 * LatCellsPerPixel, BBox(p).x0 * LonCellsPerPixel, GeohashPrecision)

\* lambda x: gh.encode(x.centroid.y, x.centroid.x, precision=10)
uid_of(p) == gh_encode(centroid(p).y, centroid(p).x, GeohashPrecision)

\* order of the identifiers as strings (the base-32 alphabet is in
\* character order, so digit order is string order)
RECURSIVE UidLess(_, _)
UidLess(a, b) ==
    /\ a # <<>> /\ b # <<>>
    /\ \/ Head(a) < Head(b)
       \/ Head(a) = Head(b) /\ UidLess(Tail(a), Tail(b))

\* ------------------------------------------------------------------ state
VARIABLES
    world,            \* lakes in the all-time summary raster
    mask_missing,     \* tiles whose land/sea mask raster is missing
    overwrite,        \* parameter: recompute tiles that have an output
    update_rows,      \* parameter: overwrite stored rows
    min_polygon_size, \* parameter: minimum polygon size, pixels
    run,              \* number of the current run of the workflow
    pc,               \* cell of the notebook the run is at
    idx,              \* position of the task loop
    failed_tasks,     \* tasks whose processing raised
    files,            \* intermediate outputs: file name -> set of polygons
    waterbodies,      \* the GeoDataFrame, a sequence of rows
    wi,               \* position of the write to the database
    db,               \* rows of the historical extent table
    db_at_start,      \* the table when the current run started
    inputs_changed,   \* the inputs were edited when the current run started
    other_rows,       \* frame of a second writer to the same table
    oi,               \* position of the second writer, 0 before it starts
    files_at_start,   \* the intermediate outputs when the current run started
    datasets,         \* the datasets, in the order the catalog returned them
    tile_index_filter,    \* parameter: the tiles allowed, or none given
    max_parallel_steps,   \* parameter: number of chunks of the task list
    mpc,              \* cell of the task generation
    sorted_tasks,     \* the tasks, sorted
    tasks_chunks,     \* file tasks_chunks: the chunks of tasks
    tasks_chunks_count,   \* file tasks_chunks_count
    read_tasks,       \* the tasks read back from the file tasks_chunks
    widx,             \* position of every tile worker in its chunk
    worker_failed,    \* failed tasks of every tile worker
    observations,     \* rows of the waterbody observations table
    extracted,        \* the pixels last read for a waterbody in a scene
    extractions       \* number of scene extractions made

\* the variables of the task generation, and of the tile workers
manifest == <<datasets, tile_index_filter, max_parallel_steps, mpc, sorted_tasks,
              tasks_chunks, tasks_chunks_count, read_tasks>>

workers == <<widx, worker_failed>>

\* the variables of the change extractor
extractor == <<observations, extracted, extractions>>

vars == <<world, mask_missing, overwrite, update_rows, min_polygon_size, run, pc, idx,
          failed_tasks, files, waterbodies, wi, db, db_at_start, inputs_changed,
          other_rows, oi, files_at_start, manifest, workers, extractor>>

\* tiles whose land/sea mask raster can be missing
MaskTiles == {<<1, 0>>}

\* sorted_tasks: one task per tile, by tile_index_x
tasks == [i \in 1 .. TilesX * TilesY |-> <<(i - 1) \div TilesY, (i - 1) % TilesY>>]

NoValue == -1

\* a row with the geometry column alone
Row(p) == [geometry |-> p, area_m2 |-> NoValue, length_m |-> NoValue,
           perim_m |-> NoValue, uid |-> <<>>, wb_id |-> NoValue]

RECURSIVE SetToSeq(_)
SetToSeq(S) ==
    IF S = {} THEN <<>>
    ELSE LET e == CHOOSE e \in S : TRUE IN <<e>> \o SetToSeq(S \ {e})

Range(seq) == {seq[i] : i \in DOMAIN seq}

Init ==
    /\ world \in Worlds
    /\ mask_missing \in SUBSET MaskTiles
    /\ overwrite \in BOOLEAN
    /\ update_rows \in BOOLEAN
    /\ min_polygon_size \in {0, DefaultMinPolygonSize}
    /\ run = 1
    /\ pc = "tasks"
    /\ idx = 1
    /\ failed_tasks = <<>>
    /\ files = [t \in {} |-> {}]
    /\ waterbodies = <<>>
    /\ wi = 1
    /\ db = <<>>
    /\ db_at_start = <<>>
    /\ inputs_changed = FALSE
    /\ other_rows = <<>>
    /\ oi = 0
    /\ files_at_start = [t \in {} |-> {}]
    /\ datasets = <<>>
    /\ tile_index_filter = [given |-> FALSE, tiles |-> {}]
    /\ max_parallel_steps = 1
    /\ mpc = "ready"
    /\ sorted_tasks = <<>>
    /\ tasks_chunks = <<>>
    /\ tasks_chunks_count = 0
    /\ read_tasks = <<>>
    /\ widx = <<>>
    /\ worker_failed = <<>>
    /\ observations = <<>>
    /\ extracted = <<>>
    /\ extractions = 0

\* ----------------------------------------------------------- task loop
\* the text written for a tile index
get_tile_index_str_from_tuple(t) == <<"x", t[1], "y", t[2]>>

\* a file name made from the column of the tile alone
output_file_name_of_column(t) == <<"waterbodies", "x", t[1]>>

\* the name of the intermediate output of the task of tile t
output_file_name(t) == <<"waterbodies">> \o get_tile_index_str_from_tuple(t)

\* a check that never finds the output file
check_file_exists_never(path) == FALSE

check_file_exists(path) == path \in DOMAIN files

\* a write that leaves no other file in the directory
to_parquet_alone(path, polys) == [x \in {path} |-> polys]

to_parquet(path, polys) ==
    [x \in DOMAIN files \cup {path} |-> IF x = path THEN polys ELSE files[x]]

\* a loop that an exception ends: the tasks after the failed one are not
\* attempted
ProcessTaskStopsAtError ==
    /\ pc = "tasks"
    /\ idx <= Len(tasks)
    /\ LET t == tasks[idx] IN
       IF overwrite \/ ~ check_file_exists(output_file_name(t))
       THEN IF t \in mask_missing
            THEN /\ failed_tasks' = Append(failed_tasks, t)
                 /\ idx' = Len(tasks) + 1
                 /\ UNCHANGED files
            ELSE LET waterbody_polygons == get_waterbodies(t, world, min_polygon_size) IN
                 /\ files' = IF waterbody_polygons = {} THEN files
                             ELSE to_parquet(output_file_name(t), waterbody_polygons)
                 /\ idx' = idx + 1
                 /\ UNCHANGED failed_tasks
       ELSE idx' = idx + 1 /\ UNCHANGED <<files, failed_tasks>>
    /\ UNCHANGED <<world, mask_missing, overwrite, update_rows, min_polygon_size, run, pc,
                   waterbodies, wi, db, db_at_start, inputs_changed,
                   other_rows, oi, files_at_start, manifest, workers, extractor>>

\* one pass of the loop over the tasks
ProcessTask ==
    /\ pc = "tasks"
    /\ idx <= Len(tasks)
    /\ LET t == tasks[idx] IN
       IF overwrite \/ ~ check_file_exists(output_file_name(t))
       THEN IF t \in mask_missing
            THEN \* get_waterbodies raises: the task is recorded as failed
                 /\ failed_tasks' = Append(failed_tasks, t)
                 /\ UNCHANGED files
            ELSE LET waterbody_polygons == get_waterbodies(t, world, min_polygon_size) IN
                 /\ files' = IF waterbody_polygons = {} THEN files
                             ELSE to_parquet(output_file_name(t), waterbody_polygons)
                 /\ UNCHANGED failed_tasks
       ELSE UNCHANGED <<files, failed_tasks>>
    /\ idx' = idx + 1
    /\ UNCHANGED <<world, mask_missing, overwrite, update_rows, min_polygon_size, run, pc,
                   waterbodies, wi, db, db_at_start, inputs_changed,
                   other_rows, oi, files_at_start, manifest, workers, extractor>>

\* the loop is over: the failed tasks are reported
ReportFailedTasks ==
    /\ pc = "tasks"
    /\ idx > Len(tasks)
    /\ pc' = "load"
    /\ UNCHANGED <<world, mask_missing, overwrite, update_rows, min_polygon_size, run, idx,
                   failed_tasks, files, waterbodies, wi, db, db_at_start, inputs_changed,
                   other_rows, oi, files_at_start, manifest, workers, extractor>>

\* ------------------------------------------------------- boundary merge
\* the files of the output directory
find_parquet_files == SetToSeq(DOMAIN files)

\* the polygons of the files, one file after the other
RECURSIVE LoadFiles(_)
LoadFiles(paths) ==
    IF paths = <<>> THEN <<>>
    ELSE SetToSeq(files[Head(paths)]) \o LoadFiles(Tail(paths))

Rows(polys) == [i \in 1 .. Len(polys) |-> Row(polys[i])]

\* every intermediate output is read into one GeoDataFrame; pd.concat of
\* an empty list raises
LoadWaterbodies ==
    /\ pc = "load"
    /\ IF DOMAIN files = {}
       THEN pc' = "halted" /\ UNCHANGED waterbodies
       ELSE pc' = "merge" /\ waterbodies' = Rows(LoadFiles(find_parquet_files))
    /\ UNCHANGED <<world, mask_missing, overwrite, update_rows, min_polygon_size, run, idx,
                   failed_tasks, files, wi, db, db_at_start, inputs_changed,
                   other_rows, oi, files_at_start, manifest, workers, extractor>>

IsOnTileBoundary(row) == OnTileBoundary(row.geometry)
IsNotOnTileBoundary(row) == ~ OnTileBoundary(row.geometry)

\* a merge that returns the merged polygons of the tile boundaries
\* without the polygons of the interior
MergeKeepingBoundaryOnly(wbs) ==
    LET tile_boundary_waterbodies == SelectSeq(wbs, IsOnTileBoundary) IN
    IF tile_boundary_waterbodies = <<>> THEN wbs
    ELSE Rows(SetToSeq(UnionExplode({r.geometry : r \in Range(tile_boundary_waterbodies)})))

\* a merge that takes every polygon into the union, not only those at
\* the tile boundaries
MergeEverywhere(wbs) ==
    Rows(SetToSeq(UnionExplode({r.geometry : r \in Range(wbs)})))

\* the rows after the merge at the tile boundaries
MergeAtTileBoundaries(wbs) ==
    LET tile_boundary_waterbodies == SelectSeq(wbs, IsOnTileBoundary)
        not_tile_boundary_waterbodies == SelectSeq(wbs, IsNotOnTileBoundary)
        tile_boundary_waterbodies_merged ==
            Rows(SetToSeq(UnionExplode({r.geometry : r \in Range(tile_boundary_waterbodies)})))
    IN IF tile_boundary_waterbodies = <<>> THEN wbs
       ELSE not_tile_boundary_waterbodies \o tile_boundary_waterbodies_merged

MergeWaterbodies ==
    /\ pc = "merge"
    /\ waterbodies' = MergeAtTileBoundaries(waterbodies)
    /\ pc' = "area"
    /\ UNCHANGED <<world, mask_missing, overwrite, update_rows, min_polygon_size, run, idx,
                   failed_tasks, files, wi, db, db_at_start, inputs_changed,
                   other_rows, oi, files_at_start, manifest, workers, extractor>>

\* ---------------------------------------------------- attribute filters
AreaKept(row) == row.area_m2 > MinAreaM2

\* the length filter left out
LengthKeptAlways(row) == TRUE

LengthKept(row) == row.length_m <= MaxLengthM

AreaFilter(wbs) ==
    SelectSeq([i \in 1 .. Len(wbs) |-> [wbs[i] EXCEPT !.area_m2 = area_m2(wbs[i].geometry)]],
              AreaKept)

LengthFilter(wbs) ==
    SelectSeq([i \in 1 .. Len(wbs) |->
                  [wbs[i] EXCEPT !.length_m = get_polygon_length(wbs[i].geometry)]],
              LengthKept)

FilterArea ==
    /\ pc = "area"
    /\ waterbodies' = AreaFilter(waterbodies)
    /\ pc' = "length"
    /\ UNCHANGED <<world, mask_missing, overwrite, update_rows, min_polygon_size, run, idx,
                   failed_tasks, files, wi, db, db_at_start, inputs_changed,
                   other_rows, oi, files_at_start, manifest, workers, extractor>>

FilterLength ==
    /\ pc = "length"
    /\ waterbodies' = LengthFilter(waterbodies)
    /\ pc' = "perim"
    /\ UNCHANGED <<world, mask_missing, overwrite, update_rows, min_polygon_size, run, idx,
                   failed_tasks, files, wi, db, db_at_start, inputs_changed,
                   other_rows, oi, files_at_start, manifest, workers, extractor>>

AddPerimeter ==
    /\ pc = "perim"
    /\ waterbodies' = [i \in 1 .. Len(waterbodies) |->
                          [waterbodies[i] EXCEPT !.perim_m = perim_m(waterbodies[i].geometry)]]
    /\ pc' = "uid"
    /\ UNCHANGED <<world, mask_missing, overwrite, update_rows, min_polygon_size, run, idx,
                   failed_tasks, files, wi, db, db_at_start, inputs_changed,
                   other_rows, oi, files_at_start, manifest, workers, extractor>>

\* ------------------------------------------------------------- identity
\* waterbodies["uid"] = waterbodies.geometry.apply(...)
WithUid(wbs) ==
    [i \in 1 .. Len(wbs) |-> [wbs[i] EXCEPT !.uid = uid_of(wbs[i].geometry)]]

\* the assertion left out
is_unique_unchecked(wbs) == TRUE

\* waterbodies["uid"].is_unique
is_unique(wbs) == \A i, j \in DOMAIN wbs : wbs[i].uid = wbs[j].uid => i = j

RemoveAt(seq, i) == SubSeq(seq, 1, i - 1) \o SubSeq(seq, i + 1, Len(seq))

\* the rows left in the order they have
sort_values_skipped(wbs) == wbs

\* waterbodies.sort_values(by=["uid"])
RECURSIVE sort_values(_)
sort_values(wbs) ==
    IF wbs = <<>> THEN <<>>
    ELSE LET i == CHOOSE i \in DOMAIN wbs :
                     \A j \in DOMAIN wbs :
                         /\ ~ UidLess(wbs[j].uid, wbs[i].uid)
                         /\ wbs[j].uid = wbs[i].uid => i <= j
         IN <<wbs[i]>> \o sort_values(RemoveAt(wbs, i))

\* the ordinals continue after the rows already stored
WithWbIdAfterStored(wbs) ==
    [i \in 1 .. Len(wbs) |-> [wbs[i] EXCEPT !.wb_id = Len(db) + i]]

\* reset_index, then waterbodies["wb_id"] = waterbodies.index + 1
WithWbId(wbs) ==
    [i \in 1 .. Len(wbs) |-> [wbs[i] EXCEPT !.wb_id = (i - 1) + 1]]

\* the identifiers are assigned and asserted unique
AssignUid ==
    /\ pc = "uid"
    /\ waterbodies' = WithUid(waterbodies)
    /\ pc' = IF is_unique(waterbodies') THEN "wb_id" ELSE "halted"
    /\ UNCHANGED <<world, mask_missing, overwrite, update_rows, min_polygon_size, run, idx,
                   failed_tasks, files, wi, db, db_at_start, inputs_changed,
                   other_rows, oi, files_at_start, manifest, workers, extractor>>

\* the rows are sorted by identifier and numbered; the minimum of the
\* ordinals of an empty frame is not greater than zero
AssignWbId ==
    /\ pc = "wb_id"
    /\ waterbodies' = WithWbId(sort_values(waterbodies))
    /\ pc' = IF waterbodies' # <<>> /\ \A i \in DOMAIN waterbodies' : waterbodies'[i].wb_id > 0
             THEN "write" ELSE "halted"
    /\ wi' = 1
    /\ UNCHANGED <<world, mask_missing, overwrite, update_rows, min_polygon_size, run, idx,
                   failed_tasks, files, db, db_at_start, inputs_changed,
                   other_rows, oi, files_at_start, manifest, workers, extractor>>

\* ---------------------------------------------------------- persistence
\* an insert that does not look for a stored row
InsertBlindly(store, rec, update) == Append(store, rec)

\* the upsert of one record, atomic in the store: the table is the
\* sequence of its rows
Upsert(store, rec, update) ==
    IF \A j \in DOMAIN store : store[j].uid # rec.uid THEN Append(store, rec)
    ELSE IF update
    THEN [j \in DOMAIN store |-> IF store[j].uid = rec.uid THEN rec ELSE store[j]]
    ELSE store

\* the write with the update flag not passed on
WriteToDbWithoutUpdate ==
    /\ pc = "write"
    /\ wi <= Len(waterbodies)
    /\ db' = Upsert(db, waterbodies[wi], FALSE)
    /\ wi' = wi + 1
    /\ pc' = IF wi = Len(waterbodies) THEN "done" ELSE "write"
    /\ UNCHANGED <<world, mask_missing, overwrite, update_rows, min_polygon_size, run, idx,
                   failed_tasks, files, waterbodies, db_at_start, inputs_changed,
                   other_rows, oi, files_at_start, manifest, workers, extractor>>

\* the write that replaces the table by the rows of the frame
WriteToDbReplacingTable ==
    /\ pc = "write"
    /\ wi <= Len(waterbodies)
    /\ db' = IF wi = 1 THEN <<waterbodies[wi]>> ELSE Upsert(db, waterbodies[wi], update_rows)
    /\ wi' = wi + 1
    /\ pc' = IF wi = Len(waterbodies) THEN "done" ELSE "write"
    /\ UNCHANGED <<world, mask_missing, overwrite, update_rows, min_polygon_size, run, idx,
                   failed_tasks, files, waterbodies, db_at_start, inputs_changed,
                   other_rows, oi, files_at_start, manifest, workers, extractor>>

\* add_waterbodies_polygons_to_db, one record at a time
WriteToDb ==
    /\ pc = "write"
    /\ wi <= Len(waterbodies)
    /\ db' = Upsert(db, waterbodies[wi], update_rows)
    /\ wi' = wi + 1
    /\ pc' = IF wi = Len(waterbodies) THEN "done" ELSE "write"
    /\ UNCHANGED <<world, mask_missing, overwrite, update_rows, min_polygon_size, run, idx,
                   failed_tasks, files, waterbodies, db_at_start, inputs_changed,
                   other_rows, oi, files_at_start, manifest, workers, extractor>>

\* ---------------------------------------------------------------- re-run
\* between two runs at most one lake appears or disappears, or one mask
\* raster appears or disappears
OneEdit(w, m) ==
    \/ w = world /\ m = mask_missing
    \/ m = mask_missing
       /\ Cardinality((w \ world) \cup (world \ w)) = 1
    \/ w = world
       /\ Cardinality((m \ mask_missing) \cup (mask_missing \ m)) = 1

NewRun ==
    /\ pc \in {"done", "halted"}
    /\ run < MaxRuns
    /\ \E w \in Worlds, m \in SUBSET MaskTiles :
          /\ OneEdit(w, m)
          /\ world' = w
          /\ mask_missing' = m
          /\ inputs_changed' = (w # world \/ m # mask_missing)
    /\ run' = run + 1
    /\ pc' = "tasks"
    /\ idx' = 1
    /\ failed_tasks' = <<>>
    /\ waterbodies' = <<>>
    /\ wi' = 1
    /\ db_at_start' = db
    /\ files_at_start' = files
    /\ UNCHANGED <<overwrite, update_rows, min_polygon_size, files, db, other_rows, oi,
                   manifest, workers, extractor>>

Next ==
    \/ ProcessTask
    \/ ReportFailedTasks
    \/ LoadWaterbodies
    \/ MergeWaterbodies
    \/ FilterArea
    \/ FilterLength
    \/ AddPerimeter
    \/ AssignUid
    \/ AssignWbId
    \/ WriteToDb
    \/ NewRun

Spec == Init /\ [][Next]_vars

\* ------------------------------------------------- two concurrent writers
\* the frame a run of the workflow on the water w, with an intermediate
\* directory of its own, hands to the write; no rows when that run halts
CandidateRows(w) ==
    LET loaded == Rows(SetToSeq(UNION {get_waterbodies(t, w, min_polygon_size) : t \in Tiles}))
        filtered == LengthFilter(AreaFilter(MergeAtTileBoundaries(loaded)))
        identified == WithUid([i \in 1 .. Len(filtered) |->
                         [filtered[i] EXCEPT !.perim_m = perim_m(filtered[i].geometry)]])
    IN IF is_unique(identified) THEN WithWbId(sort_values(identified)) ELSE <<>>

\* the water of the second writer: lakes that share their identifier with
\* one another, and lakes that do not
OtherWorlds == {w \in Worlds : w \subseteq {"island", "rim", "outer", "east", "pond5"}}

\* while the run writes its rows a second writer starts on the same table
StartOtherWriter ==
    /\ pc = "write"
    /\ oi = 0
    /\ \E w \in OtherWorlds :
          /\ CandidateRows(w) # <<>>
          /\ other_rows' = CandidateRows(w)
    /\ oi' = 1
    /\ UNCHANGED <<world, mask_missing, overwrite, update_rows, min_polygon_size, run, pc, idx,
                   failed_tasks, files, waterbodies, wi, db, db_at_start, inputs_changed,
                   files_at_start, manifest, workers, extractor>>

\* the second writer upserts its next row
OtherWriteToDb ==
    /\ oi >= 1
    /\ oi <= Len(other_rows)
    /\ db' = Upsert(db, other_rows[oi], update_rows)
    /\ oi' = oi + 1
    /\ UNCHANGED <<world, mask_missing, overwrite, update_rows, min_polygon_size, run, pc, idx,
                   failed_tasks, files, waterbodies, wi, db_at_start, inputs_changed,
                   other_rows, files_at_start, manifest, workers, extractor>>

NextConcurrent ==
    \/ ProcessTask
    \/ ReportFailedTasks
    \/ LoadWaterbodies
    \/ MergeWaterbodies
    \/ FilterArea
    \/ FilterLength
    \/ AddPerimeter
    \/ AssignUid
    \/ AssignWbId
    \/ WriteToDb
    \/ StartOtherWriter
    \/ OtherWriteToDb

SpecConcurrent == Init /\ [][NextConcurrent]_vars

\* ------------------------------------------------------- task generation
\* the catalog holds NumDatasets datasets of the product; dataset d covers
\* one tile, and the datasets beyond the number of tiles are second
\* datasets of a tile
DatasetTile(d) ==
    LET k == (d - 1) % (TilesX * TilesY) IN <<k \div TilesY, k % TilesY>>

\* the orders in which the catalog can return its datasets
CatalogOrders ==
    {o \in [1 .. NumDatasets -> 1 .. NumDatasets] :
        \A i, j \in 1 .. NumDatasets : o[i] = o[j] => i = j}

\* the stream of datasets is binned into cells, one cell per tile, a cell
\* being made when the first dataset of its tile is met
RECURSIVE bin_dataset_stream(_, _)
bin_dataset_stream(dss, cells) ==
    IF dss = <<>> THEN cells
    ELSE LET d == Head(dss)
             at == {i \in DOMAIN cells : cells[i].tile_index = DatasetTile(d)}
         IN bin_dataset_stream(Tail(dss),
                IF at = {}
                THEN Append(cells, [tile_index |-> DatasetTile(d), dss |-> {d}])
                ELSE [i \in DOMAIN cells |->
                         IF i \in at THEN [cells[i] EXCEPT !.dss = @ \cup {d}] ELSE cells[i]])

\* one task per tile touched by a dataset and allowed by the filter, with
\* the identifiers of the datasets of the tile (no binning by solar day)
create_tasks_from_datasets(dss, filter) ==
    LET cells == bin_dataset_stream(dss, <<>>)
        allowed(cell) == ~ filter.given \/ cell.tile_index \in filter.tiles
    IN SelectSeq(cells, LAMBDA cell : allowed(cell))

format_task(task) ==
    [tile_index_x |-> task.tile_index[1], tile_index_y |-> task.tile_index[2],
     task_datasets_ids |-> task.dss]

\* sorted(tasks, key=tile_index_x): a stable sort, tasks of one column
\* stay in the order they had
RECURSIVE sorted_by_tile_index_x(_, _)
sorted_by_tile_index_x(ts, x) ==
    IF x >= TilesX THEN <<>>
    ELSE SelectSeq(ts, LAMBDA t : t.tile_index_x = x) \o sorted_by_tile_index_x(ts, x + 1)

SortedTasks(dss, filter) ==
    LET ts == create_tasks_from_datasets(dss, filter) IN
    sorted_by_tile_index_x([i \in 1 .. Len(ts) |-> format_task(ts[i])], 0)

\* a split into n sections of equal size that leaves the remainder out
array_split_without_remainder(ary, n) ==
    LET each == Len(ary) \div n IN
    [k \in 1 .. n |-> SubSeq(ary, (k - 1) * each + 1, k * each)]

\* np.array_split: n sections, the first Len % n of them one longer
array_split(ary, n) ==
    LET each == Len(ary) \div n
        extras == Len(ary) % n
        start(k) == (k - 1) * each + Min(k - 1, extras)
    IN [k \in 1 .. n |-> SubSeq(ary, start(k) + 1, start(k + 1))]

\* filter(None, chunks): the empty chunks are left out
NotEmpty(chunk) == chunk # <<>>
filter_None(chunks) == SelectSeq(chunks, NotEmpty)

\* chain(*chunks): the chunks one after the other
RECURSIVE chain(_)
chain(chunks) == IF chunks = <<>> THEN <<>> ELSE Head(chunks) \o chain(Tail(chunks))

\* the tasks are made from the datasets and sorted
GenerateTasks ==
    /\ mpc = "generate"
    /\ sorted_tasks' = SortedTasks(datasets, tile_index_filter)
    /\ mpc' = "chunk"
    /\ UNCHANGED <<world, mask_missing, overwrite, update_rows, min_polygon_size, run, pc, idx,
                   failed_tasks, files, waterbodies, wi, db, db_at_start, inputs_changed,
                   other_rows, oi, files_at_start, workers, extractor,
                   datasets, tile_index_filter, max_parallel_steps,
                   tasks_chunks, tasks_chunks_count, read_tasks>>

\* the chunks and their number are written to the two files
WriteTaskChunks ==
    /\ mpc = "chunk"
    /\ LET task_chunks == filter_None(array_split(sorted_tasks, max_parallel_steps)) IN
       /\ tasks_chunks' = task_chunks
       /\ tasks_chunks_count' = Len(task_chunks)
    /\ mpc' = "read"
    /\ UNCHANGED <<world, mask_missing, overwrite, update_rows, min_polygon_size, run, pc, idx,
                   failed_tasks, files, waterbodies, wi, db, db_at_start, inputs_changed,
                   other_rows, oi, files_at_start, workers, extractor,
                   datasets, tile_index_filter, max_parallel_steps,
                   sorted_tasks, read_tasks>>

\* the file of chunks is read back; a list of lists is flattened
ReadTasks ==
    /\ mpc = "read"
    /\ read_tasks' = chain(tasks_chunks)
    /\ mpc' = "ready"
    /\ UNCHANGED <<world, mask_missing, overwrite, update_rows, min_polygon_size, run, pc, idx,
                   failed_tasks, files, waterbodies, wi, db, db_at_start, inputs_changed,
                   other_rows, oi, files_at_start, workers, extractor,
                   datasets, tile_index_filter, max_parallel_steps,
                   sorted_tasks, tasks_chunks, tasks_chunks_count>>

\* the allow-lists of tiles tried
TileIndexFilters ==
    {[given |-> FALSE, tiles |-> {}]} \cup
    {[given |-> TRUE, tiles |-> S] : S \in {{}, {<<0, 0>>}, Tiles \ {<<0, 0>>}}}

InitManifest ==
    /\ world = {}
    /\ mask_missing = {}
    /\ overwrite = TRUE
    /\ update_rows = TRUE
    /\ min_polygon_size = DefaultMinPolygonSize
    /\ run = 1
    /\ pc = "tasks"
    /\ idx = 1
    /\ failed_tasks = <<>>
    /\ files = [t \in {} |-> {}]
    /\ waterbodies = <<>>
    /\ wi = 1
    /\ db = <<>>
    /\ db_at_start = <<>>
    /\ inputs_changed = FALSE
    /\ other_rows = <<>>
    /\ oi = 0
    /\ files_at_start = [t \in {} |-> {}]
    /\ datasets \in CatalogOrders
    /\ tile_index_filter \in TileIndexFilters
    /\ max_parallel_steps \in 1 .. MaxParallelSteps
    /\ mpc = "generate"
    /\ sorted_tasks = <<>>
    /\ tasks_chunks = <<>>
    /\ tasks_chunks_count = 0
    /\ read_tasks = <<>>
    /\ widx = <<>>
    /\ worker_failed = <<>>
    /\ observations = <<>>
    /\ extracted = <<>>
    /\ extractions = 0

NextManifest ==
    \/ GenerateTasks
    \/ WriteTaskChunks
    \/ ReadTasks

SpecManifest == InitManifest /\ [][NextManifest]_vars

\* ----------------------------------------------------------- tile workers
\* Every chunk of the file tasks_chunks is the task list of one worker,
\* which runs the task loop on it; the workers run at the same time.  The
\* cells that merge the outputs run on their own, from the cell that
\* loads the files.
task_id_tuple(task) == <<task.tile_index_x, task.tile_index_y>>

\* one pass of the loop of worker k
WorkerProcessTask(k) ==
    /\ k \in DOMAIN widx
    /\ widx[k] <= Len(tasks_chunks[k])
    /\ LET t == task_id_tuple(tasks_chunks[k][widx[k]]) IN
       IF overwrite \/ ~ check_file_exists(output_file_name(t))
       THEN IF t \in mask_missing
            THEN /\ worker_failed' = [worker_failed EXCEPT ![k] = Append(@, t)]
                 /\ UNCHANGED files
            ELSE LET waterbody_polygons == get_waterbodies(t, world, min_polygon_size) IN
                 /\ files' = IF waterbody_polygons = {} THEN files
                             ELSE to_parquet(output_file_name(t), waterbody_polygons)
                 /\ UNCHANGED worker_failed
       ELSE UNCHANGED <<files, worker_failed>>
    /\ widx' = [widx EXCEPT ![k] = @ + 1]
    /\ UNCHANGED <<world, mask_missing, overwrite, update_rows, min_polygon_size, run, pc, idx,
                   failed_tasks, waterbodies, wi, db, db_at_start, inputs_changed,
                   other_rows, oi, files_at_start, manifest, extractor>>

\* the catalog in the order of the dataset numbers
CatalogInOrder == [i \in 1 .. NumDatasets |-> i]

InitWorkers ==
    /\ world \in Worlds
    /\ mask_missing \in SUBSET MaskTiles
    /\ overwrite \in BOOLEAN
    /\ update_rows = TRUE
    /\ min_polygon_size = DefaultMinPolygonSize
    /\ run = 1
    /\ pc = "load"
    /\ idx = 1
    /\ failed_tasks = <<>>
    /\ files = [t \in {} |-> {}]
    /\ waterbodies = <<>>
    /\ wi = 1
    /\ db = <<>>
    /\ db_at_start = <<>>
    /\ inputs_changed = FALSE
    /\ other_rows = <<>>
    /\ oi = 0
    /\ files_at_start = [t \in {} |-> {}]
    /\ datasets = CatalogInOrder
    /\ tile_index_filter = [given |-> FALSE, tiles |-> {}]
    /\ max_parallel_steps \in 1 .. MaxParallelSteps
    /\ mpc = "ready"
    /\ sorted_tasks = SortedTasks(datasets, tile_index_filter)
    /\ tasks_chunks = filter_None(array_split(sorted_tasks, max_parallel_steps))
    /\ tasks_chunks_count = Len(tasks_chunks)
    /\ read_tasks = <<>>
    /\ widx = [k \in 1 .. tasks_chunks_count |-> 1]
    /\ worker_failed = [k \in 1 .. tasks_chunks_count |-> <<>>]
    /\ observations = <<>>
    /\ extracted = <<>>
    /\ extractions = 0

NextWorkers ==
    \/ \E k \in 1 .. MaxParallelSteps : WorkerProcessTask(k)
    \/ LoadWaterbodies
    \/ MergeWaterbodies
    \/ FilterArea
    \/ FilterLength
    \/ AddPerimeter
    \/ AssignUid
    \/ AssignWbId
    \/ WriteToDb

SpecWorkers == InitWorkers /\ [][NextWorkers]_vars

\* ------------------------------------------------------ change extractor
\* For a scene of the catalog the extractor reads, for every waterbody
\* whose geometry the scene intersects, the classified pixels inside the
\* polygon, and stores one observation for the waterbody and the scene.
Scenes == {"scene_1", "scene_2"}

InventoryUids == {"wb_a", "wb_b"}

\* the waterbodies whose geometry the footprint of the scene intersects
WaterbodiesOfScene(scene) ==
    IF scene = "scene_1" THEN {"wb_a"} ELSE {"wb_a", "wb_b"}

\* the classified pixels of a scene inside the polygon of a waterbody, as
\* runs of pixels of one class: 100 pixels for wb_a, 4 for wb_b
ClassifiedRasters(uid) ==
    IF uid = "wb_a"
    THEN {<<<<"wet", 80>>, <<"dry", 15>>, <<"invalid", 5>>>>,
          <<<<"invalid", 100>>>>,
          <<<<"dry", 40>>, <<"wet", 30>>, <<"dry", 30>>>>}
    ELSE {<<<<"wet", 1>>, <<"invalid", 2>>, <<"dry", 1>>>>,
          <<<<"invalid", 4>>>>,
          <<<<"wet", 3>>, <<"dry", 1>>>>}

\* number of pixels of a class
RECURSIVE count_pixels(_, _)
count_pixels(raster, class) ==
    IF raster = <<>> THEN 0
    ELSE (IF Head(raster)[1] = class THEN Head(raster)[2] ELSE 0)
         + count_pixels(Tail(raster), class)

\* number of pixels the polygon covers
covered_pixels(raster) ==
    count_pixels(raster, "wet") + count_pixels(raster, "dry")
    + count_pixels(raster, "invalid")

\* a count as a fraction of the valid pixels
fraction_of_valid(count, raster) ==
    <<count, Max(1, count_pixels(raster, "wet") + count_pixels(raster, "dry"))>>

\* a count as a fraction of the covered pixels: numerator and denominator
fraction(count, raster) == <<count, covered_pixels(raster)>>

\* the observation of a waterbody in a scene
observation(uid, scene, raster) ==
    [uid |-> uid, scene |-> scene,
     wet |-> fraction(count_pixels(raster, "wet"), raster),
     dry |-> fraction(count_pixels(raster, "dry"), raster),
     invalid |-> fraction(count_pixels(raster, "invalid"), raster)]

\* a record is made only when the polygon has a valid pixel
produces_record_when_valid(raster) ==
    count_pixels(raster, "wet") + count_pixels(raster, "dry") > 0

\* a record is made for every waterbody the scene intersects
produces_record(raster) == covered_pixels(raster) > 0

\* the record is added to the table whatever the table holds
append_observation(store, rec) == Append(store, rec)

\* upsert by (waterbody identifier, scene identifier)
upsert_observation(store, rec) ==
    IF \E i \in DOMAIN store : store[i].uid = rec.uid /\ store[i].scene = rec.scene
    THEN [i \in DOMAIN store |->
             IF store[i].uid = rec.uid /\ store[i].scene = rec.scene THEN rec ELSE store[i]]
    ELSE Append(store, rec)

\* the observations of the waterbodies uids of a scene, written one
\* after the other
RECURSIVE write_observations(_, _, _, _)
write_observations(store, uids, scene, rasters) ==
    IF uids = <<>> THEN store
    ELSE LET uid == Head(uids)
             next == IF produces_record(rasters[uid])
                     THEN upsert_observation(store, observation(uid, scene, rasters[uid]))
                     ELSE store
         IN write_observations(next, Tail(uids), scene, rasters)

\* one scene is extracted
ExtractScene(scene) ==
    /\ extractions < MaxExtractions
    /\ \E rasters \in [WaterbodiesOfScene(scene) -> UNION {ClassifiedRasters(u) : u \in InventoryUids}] :
          /\ \A u \in WaterbodiesOfScene(scene) : rasters[u] \in ClassifiedRasters(u)
          /\ observations' = write_observations(observations,
                                                SetToSeq(WaterbodiesOfScene(scene)),
                                                scene, rasters)
          /\ extracted' = [k \in DOMAIN extracted \cup {<<u, scene>> : u \in WaterbodiesOfScene(scene)} |->
                              IF k[2] = scene THEN rasters[k[1]] ELSE extracted[k]]
    /\ extractions' = extractions + 1
    /\ UNCHANGED <<world, mask_missing, overwrite, update_rows, min_polygon_size, run, pc, idx,
                   failed_tasks, files, waterbodies, wi, db, db_at_start, inputs_changed,
                   other_rows, oi, files_at_start, manifest, workers>>

InitExtract ==
    /\ world = {}
    /\ mask_missing = {}
    /\ overwrite = TRUE
    /\ update_rows = TRUE
    /\ min_polygon_size = DefaultMinPolygonSize
    /\ run = 1
    /\ pc = "done"
    /\ idx = 1
    /\ failed_tasks = <<>>
    /\ files = [t \in {} |-> {}]
    /\ waterbodies = <<>>
    /\ wi = 1
    /\ db = <<>>
    /\ db_at_start = <<>>
    /\ inputs_changed = FALSE
    /\ other_rows = <<>>
    /\ oi = 0
    /\ files_at_start = [t \in {} |-> {}]
    /\ datasets = <<>>
    /\ tile_index_filter = [given |-> FALSE, tiles |-> {}]
    /\ max_parallel_steps = 1
    /\ mpc = "ready"
    /\ sorted_tasks = <<>>
    /\ tasks_chunks = <<>>
    /\ tasks_chunks_count = 0
    /\ read_tasks = <<>>
    /\ widx = <<>>
    /\ worker_failed = <<>>
    /\ observations = <<>>
    /\ extracted = <<>>
    /\ extractions = 0

NextExtract == \E scene \in Scenes : ExtractScene(scene)

SpecExtract == InitExtract /\ [][NextExtract]_vars

\* ================================================================ claims
\* two polygons share a border of positive length
Touches(p, q) == \E a \in p, b \in q : Adjacent(a, b)

\* the rows of the frame that hold every rectangle of the set
RowsCovering(rects) == {i \in DOMAIN waterbodies : rects \subseteq waterbodies[i].geometry}

\* the tiles whose intermediate output has a fragment inside the geometry
TilesMergedInto(g) == {t \in DOMAIN files : \E p \in files[t] : p \subseteq g}

\* C1: after the merge at the tile boundaries, any two fragments that lie
\* in the outputs of two different tiles and touch across the boundary are
\* part of exactly one polygon, which covers both of them; no other polygon
\* holds a piece of either.  This includes four fragments meeting at a
\* corner of four tiles.
C1_FragmentsStitchedIntoOne ==
    pc = "area" =>
        \A t1, t2 \in DOMAIN files :
            t1 # t2 =>
                \A p \in files[t1], q \in files[t2] :
                    Touches(p, q) =>
                        /\ Cardinality(RowsCovering(p \cup q)) = 1
                        /\ \A i \in DOMAIN waterbodies :
                              waterbodies[i].geometry \cap (p \cup q) # {}
                                  => i \in RowsCovering(p \cup q)

\* C1 witness: one polygon after the merge holds fragments of four tiles
C1_Witness ==
    /\ pc = "area"
    /\ \E i \in DOMAIN waterbodies : Cardinality(TilesMergedInto(waterbodies[i].geometry)) = 4

\* C2: a run on inputs that were not changed since the run before it
\* leaves the table as it was when the run started: no row is added,
\* removed or altered, at any point of the run.
C2_RerunLeavesInventoryUnchanged ==
    (run > 1 /\ ~ inputs_changed) => db = db_at_start

\* C2 witness: a second run on unchanged inputs has written its rows, with
\* updates enabled, to a table that held them already
C2_Witness ==
    /\ run > 1 /\ ~ inputs_changed
    /\ pc = "done"
    /\ update_rows
    /\ Len(waterbodies) >= 2
    /\ db # <<>>

\* no two rows of the frame have the same identifier
DistinctUids(wbs) == \A i, j \in DOMAIN wbs : i # j => wbs[i].uid # wbs[j].uid

\* C3: the rows that get an ordinal and are written to the table have
\* pairwise distinct identifiers.  When two polygons of the filtered set
\* get the same identifier the run halts: no row has an ordinal, the table
\* is as it was when the run started, and every row keeps the identifier
\* of its own centroid.
C3_CollisionHaltsRun ==
    /\ pc \in {"wb_id", "write", "done"} => DistinctUids(waterbodies)
    /\ (pc = "halted" /\ ~ DistinctUids(waterbodies)) =>
          /\ db = db_at_start
          /\ \A i \in DOMAIN waterbodies :
                /\ waterbodies[i].wb_id = NoValue
                /\ waterbodies[i].uid = uid_of(waterbodies[i].geometry)

\* C3 witness: a run has halted on two different polygons with one
\* identifier, while the table holds rows of an earlier run
C3_Witness ==
    /\ pc = "halted"
    /\ db # <<>>
    /\ \E i, j \in DOMAIN waterbodies :
          /\ waterbodies[i].geometry # waterbodies[j].geometry
          /\ waterbodies[i].uid # <<>>
          /\ waterbodies[i].uid = waterbodies[j].uid

\* the rows that have an identifier: those of the frame and of the table
RowsWithUid == {r \in Range(waterbodies) \cup Range(db) : r.uid # <<>>}

\* C4: an identifier has 10 characters and is decided by the centroid
\* alone: two rows whose polygons have the same centroid, in the frame of
\* this run or stored by an earlier one, have the same identifier, whatever
\* the other polygons of their sets and whatever their ordinals.
C4_UidFunctionOfCentroid ==
    \A r1, r2 \in RowsWithUid :
        /\ Len(r1.uid) = GeohashPrecision
        /\ centroid(r1.geometry) = centroid(r2.geometry) => r1.uid = r2.uid

\* C4 witness: a polygon stored by an earlier run is in the frame of this
\* run with the same geometry and identifier and another ordinal
C4_Witness ==
    \E r \in Range(db), w \in Range(waterbodies) :
        /\ r.geometry = w.geometry
        /\ r.uid = w.uid
        /\ w.wb_id # NoValue
        /\ r.wb_id # w.wb_id

WithinSizeLimits(g) == area_m2(g) >= MinAreaM2 /\ get_polygon_length(g) <= MaxLengthM

\* the polygons the filters of this run were given: the merge of the
\* intermediate outputs, which the run does not change after the task loop
MergedPolygons == {r.geometry : r \in Range(MergeAtTileBoundaries(Rows(LoadFiles(find_parquet_files))))}

\* C5: once the area filter has run every polygon of the frame has an area
\* of at least 4500 m2, once the length filter has run also a length of at
\* most 150 km; every row that has an identifier, and every row of the
\* table, is within both limits.
C5_FilteredWithinLimits ==
    /\ pc = "length" => \A i \in DOMAIN waterbodies :
                            area_m2(waterbodies[i].geometry) >= MinAreaM2
    /\ pc \in {"perim", "uid", "wb_id", "write", "done", "halted"} =>
          \A i \in DOMAIN waterbodies : WithinSizeLimits(waterbodies[i].geometry)
    /\ \A r \in RowsWithUid : WithinSizeLimits(r.geometry)

\* C5 witness: the filters have discarded a polygon that is too long and
\* have kept another polygon
C5_Witness ==
    /\ pc = "perim"
    /\ waterbodies # <<>>
    /\ \E g \in MergedPolygons :
          /\ get_polygon_length(g) > MaxLengthM
          /\ area_m2(g) >= MinAreaM2
          /\ \A i \in DOMAIN waterbodies : waterbodies[i].geometry # g

\* the pieces the tile boundaries cut a water region into
Fragments(region) == {c \in {Clip(r, t) : r \in region, t \in Tiles} : NonEmpty(c)}

TilesOfRegion(region) == {t \in Tiles : \E r \in region : NonEmpty(Clip(r, t))}

\* C6: size filtering comes after the merge only: when every tile has been
\* processed in this run, a water region that lies in two or more tiles,
\* is not oversized and as a whole passes the area and length filters is
\* in the frame after the filters with the pixels of all its fragments,
\* also when one fragment alone is below the minimum size.
C6_NoFragmentFilteredBeforeMerge ==
    (pc = "perim" /\ overwrite /\ mask_missing = {}) =>
        \A region \in Components(Water(world)) :
            (/\ Cardinality(TilesOfRegion(region)) >= 2
             /\ PixelCount(region) <= max_polygon_size
             /\ area_m2(region) > MinAreaM2
             /\ get_polygon_length(region) <= MaxLengthM)
                => RowsCovering(Fragments(region)) # {}

\* C7: the rows that are written carry the ordinals 1..N in the order of
\* the frame, which is the strict order of their identifiers: every
\* ordinal is greater than zero, none is shared, and a smaller ordinal
\* means a smaller identifier.
C7_OrdinalsAreRowNumbers ==
    pc \in {"write", "done"} =>
        /\ \A i \in DOMAIN waterbodies : waterbodies[i].wb_id = i /\ waterbodies[i].wb_id > 0
        /\ \A i, j \in DOMAIN waterbodies :
              (i # j => waterbodies[i].wb_id # waterbodies[j].wb_id)
              /\ (i < j => UidLess(waterbodies[i].uid, waterbodies[j].uid))

\* C7 witness: ordinals were assigned to two or more polygons which the
\* sort by identifier had to reorder
C7_Witness ==
    /\ pc = "write"
    /\ Len(waterbodies) >= 2
    /\ LET before == WithUid(LengthFilter(AreaFilter(MergeAtTileBoundaries(Rows(LoadFiles(find_parquet_files))))))
       IN \E i \in DOMAIN before : i < Len(before) /\ UidLess(before[i + 1].uid, before[i].uid)

\* the positions of the table that hold the identifier
StoredAt(store, uid) == {j \in DOMAIN store : store[j].uid = uid}

\* what the write of the row at wi does to the table
WriteStepIsUpsert ==
    pc = "write" =>
        LET rec == waterbodies[wi]
            stored == StoredAt(db, rec.uid)
        IN \/ /\ stored = {}
              /\ db' = Append(db, rec)
           \/ /\ stored # {}
              /\ update_rows
              /\ DOMAIN db' = DOMAIN db
              /\ \A j \in DOMAIN db : db'[j] = IF j \in stored THEN rec ELSE db[j]
           \/ /\ stored # {}
              /\ ~ update_rows
              /\ db' = db

\* after a run with update_rows every row of the frame is the stored row
\* of its identifier
StoredEqualsCandidates ==
    (pc = "done" /\ update_rows) =>
        \A i \in DOMAIN waterbodies :
            /\ Cardinality(StoredAt(db, waterbodies[i].uid)) = 1
            /\ \A j \in StoredAt(db, waterbodies[i].uid) : db[j] = waterbodies[i]

\* C8: the write of a row appends it when no stored row has its
\* identifier, replaces the stored row when there is one and update_rows is
\* set, and leaves the table as it is when there is one and update_rows is
\* not set; after a run with update_rows the stored row of every
\* identifier of the frame equals the row of the frame.
C8_InsertUpdateOrLeave == [][WriteStepIsUpsert]_vars /\ []StoredEqualsCandidates

\* C8 witness: a run with update_rows has replaced the geometry stored
\* under an identifier by an earlier run
C8_Witness ==
    /\ pc = "done"
    /\ update_rows
    /\ \E j \in DOMAIN db_at_start, k \in DOMAIN db :
          /\ db_at_start[j].uid = db[k].uid
          /\ db_at_start[j].geometry # db[k].geometry

\* C9: no step removes a stored row or changes the identifier it is stored
\* under, and a stored row whose identifier is not in the frame being
\* written keeps its geometry and attributes.
C9_NeverDeletes ==
    [][\A j \in DOMAIN db :
          /\ j \in DOMAIN db'
          /\ db'[j].uid = db[j].uid
          /\ (pc # "write" \/ \A i \in DOMAIN waterbodies : waterbodies[i].uid # db[j].uid)
                => db'[j] = db[j]]_vars

\* C9 witness: a run has written to the table, which still holds a row of
\* an earlier run whose identifier is not in the frame of this run
C9_Witness ==
    /\ run > 1
    /\ pc = "done"
    /\ db # db_at_start
    /\ \E j \in DOMAIN db : \A i \in DOMAIN waterbodies : waterbodies[i].uid # db[j].uid

\* no two stored rows have the same identifier
NoDuplicateUids == \A j, k \in DOMAIN db : db[j].uid = db[k].uid => j = k

\* a step adds at most one row, and only under an identifier that no
\* stored row has at that instant
InsertOnlyWhenAbsent ==
    /\ Len(db') <= Len(db) + 1
    /\ Len(db') = Len(db) + 1 => StoredAt(db, db'[Len(db')].uid) = {}

\* the upsert of rec takes effect and leaves the rows of all other
\* identifiers as they are
UpsertIsLocal(rec) ==
    /\ \A j \in DOMAIN db : db[j].uid # rec.uid => (j \in DOMAIN db' /\ db'[j] = db[j])
    /\ (update_rows \/ StoredAt(db, rec.uid) = {}) => \E j \in DOMAIN db' : db'[j] = rec

WriterStepsAreLocal ==
    /\ (pc = "write" /\ wi' # wi) => UpsertIsLocal(waterbodies[wi])
    /\ (oi >= 1 /\ oi' # oi) => UpsertIsLocal(other_rows[oi])

\* C10: with two writers upserting row by row in any interleaving the
\* table never holds two rows with one identifier, a row is inserted only
\* while no stored row has its identifier (so two writers never both insert
\* it), and each upsert takes effect and leaves the rows of the other
\* identifiers unchanged.
C10_AtomicUpsert ==
    []NoDuplicateUids /\ [][InsertOnlyWhenAbsent /\ WriterStepsAreLocal]_vars

\* C10 witness: both writers have written all their rows, interleaved;
\* their frames share an identifier, with different geometries, and each
\* has an identifier the other has not
C10_Witness ==
    /\ pc = "done"
    /\ oi > Len(other_rows)
    /\ \E i \in DOMAIN waterbodies, k \in DOMAIN other_rows :
          /\ waterbodies[i].uid = other_rows[k].uid
          /\ waterbodies[i].geometry # other_rows[k].geometry
    /\ \E i \in DOMAIN waterbodies : StoredAt(other_rows, waterbodies[i].uid) = {}
    /\ \E k \in DOMAIN other_rows : StoredAt(waterbodies, other_rows[k].uid) = {}
    /\ \E j \in DOMAIN db : j < Len(db) /\ db[j] \in Range(other_rows)
                            /\ db[Len(db)] \in Range(waterbodies)

\* the intermediate outputs after polys is written for tile t
FilesWith(t, polys) ==
    [x \in DOMAIN files \cup {output_file_name(t)} |->
        IF x = output_file_name(t) THEN polys ELSE files[x]]

\* the tiles that have an intermediate output in the directory dir
TilesIn(dir) == {t \in Tiles : output_file_name(t) \in DOMAIN dir}

\* the intermediate output of tile t in the directory dir
OutputIn(dir, t) == dir[output_file_name(t)]

\* one pass of the task loop, on task t: a tile that has an output is
\* passed over when overwrite is off; any other tile is computed
PassOverOrProcess(t) ==
    IF ~ overwrite /\ t \in TilesIn(files)
    THEN files' = files /\ failed_tasks' = failed_tasks
    ELSE IF t \in mask_missing
         THEN files' = files /\ failed_tasks' = Append(failed_tasks, t)
         ELSE /\ failed_tasks' = failed_tasks
              /\ LET polys == get_waterbodies(t, world, min_polygon_size) IN
                 files' = IF polys = {} THEN files ELSE FilesWith(t, polys)

\* C11: with overwrite disabled a task whose tile already has an
\* intermediate output is skipped (not recomputed, the object unchanged,
\* not recorded as failed); a task whose tile has no output is processed
\* normally.
C11_ExistingOutputIsSkipped ==
    [][(pc = "tasks" /\ idx <= Len(tasks) /\ idx' # idx) => PassOverOrProcess(tasks[idx])]_vars

\* C11 witness: a second run without overwrite has finished its loop; one
\* tile kept the output of the first run although the water changed, and
\* another tile, which had no output, was processed
C11_Witness ==
    /\ run = 2
    /\ ~ overwrite
    /\ pc = "load"
    /\ \E t \in TilesIn(files_at_start) :
          /\ t \notin mask_missing
          /\ OutputIn(files, t) = OutputIn(files_at_start, t)
          /\ OutputIn(files, t) # get_waterbodies(t, world, min_polygon_size)
    /\ \E t \in TilesIn(files) \ TilesIn(files_at_start) :
          OutputIn(files, t) = get_waterbodies(t, world, min_polygon_size)

\* the processing of tile t raises, or raised in the loop that is over
Raises(t) == t \in mask_missing /\ (overwrite \/ t \notin TilesIn(files))

\* a pass of the loop goes on to the next task; a pass that raises
\* records the task and alters no output
LoopGoesOnAfterError ==
    (pc = "tasks" /\ idx <= Len(tasks) /\ idx' # idx) =>
        /\ idx' = idx + 1
        /\ pc' = "tasks"
        /\ Raises(tasks[idx]) => /\ failed_tasks' = Append(failed_tasks, tasks[idx])
                                 /\ files' = files

\* after the loop the failed list holds the tasks that raised, each once,
\* and every other task was attempted: its tile has its output
FailedTasksAreThoseThatRaised ==
    pc # "tasks" =>
        /\ failed_tasks = SelectSeq(tasks, Raises)
        /\ \A t \in Range(tasks) \ Range(failed_tasks) :
              get_waterbodies(t, world, min_polygon_size) # {} =>
                  /\ t \in TilesIn(files)
                  /\ (overwrite \/ t \notin TilesIn(files_at_start)) =>
                         OutputIn(files, t) = get_waterbodies(t, world, min_polygon_size)

\* C12: a tile whose processing raises (its land/sea mask is missing) is
\* appended to the failed list and the loop continues: every other task is
\* still attempted once, no output of another tile is altered, and at the
\* end the failed list contains exactly the tasks that raised.
C12_FailureIsIsolated == [][LoopGoesOnAfterError]_vars /\ []FailedTasksAreThoseThatRaised

\* C12 witness: the loop is over, a task failed, and tiles before and
\* after it in the task list were written in this run
C12_Witness ==
    /\ pc = "load"
    /\ \E i, j, k \in DOMAIN tasks :
          /\ i < j /\ j < k
          /\ tasks[j] \in Range(failed_tasks)
          /\ {tasks[i], tasks[k]} \subseteq TilesIn(files) \ TilesIn(files_at_start)

\* every worker is at the end of its chunk
AllWorkersDone == \A k \in DOMAIN widx : widx[k] > Len(tasks_chunks[k])

\* C13: the cell that loads the intermediate outputs for the merge reads
\* them only when every tile task of the batch has finished; when it is
\* run while a tile task of the batch is still to finish, the run halts
\* and no inventory is made.
C13_StitcherWaitsForTileTasks ==
    [][(pc = "load" /\ pc' # "load") => (AllWorkersDone \/ pc' = "halted")]_vars

\* C14: the sorted task list made from the catalog is the same (the same
\* tiles, the same groups of datasets, in the same order) whatever the
\* order in which the catalog returned the datasets, the allow-list of
\* tiles and the binning flag being the same.
C14_TaskGenerationIsDeterministic ==
    mpc # "generate" =>
        \A other \in CatalogOrders : SortedTasks(other, tile_index_filter) = sorted_tasks

\* the places of the written chunks where the task is
PlacesOf(task) ==
    {<<k, j>> \in (1 .. MaxParallelSteps) \X (1 .. NumDatasets) :
        k \in DOMAIN tasks_chunks /\ j \in DOMAIN tasks_chunks[k] /\ tasks_chunks[k][j] = task}

\* C15: the sorted task list split into at most max_parallel_steps chunks
\* and flattened again is the list itself, in its order: every task is in
\* exactly one chunk, no written chunk is empty, the written count is the
\* number of written chunks, and the sizes of the chunks differ by at most
\* one.
C15_ChunksFlattenToTaskList ==
    /\ mpc \in {"read", "ready"} =>
          /\ chain(tasks_chunks) = sorted_tasks
          /\ \A i \in DOMAIN sorted_tasks : Cardinality(PlacesOf(sorted_tasks[i])) = 1
          /\ Len(tasks_chunks) <= max_parallel_steps
          /\ \A k \in DOMAIN tasks_chunks : tasks_chunks[k] # <<>>
          /\ tasks_chunks_count = Len(tasks_chunks)
          /\ \A k, l \in DOMAIN tasks_chunks : Len(tasks_chunks[k]) <= Len(tasks_chunks[l]) + 1
    /\ mpc = "ready" => read_tasks = sorted_tasks

\* C15 witness: four tasks were split into three chunks of unequal size
\* and read back
C15_Witness ==
    /\ mpc = "ready"
    /\ Len(sorted_tasks) = 4
    /\ max_parallel_steps = 3
    /\ tasks_chunks_count = 3
    /\ Len(tasks_chunks[1]) = 2
    /\ read_tasks = sorted_tasks

\* the tiles of the tasks of a chunk
ChunkTiles(chunk) == {task_id_tuple(chunk[j]) : j \in DOMAIN chunk}

\* the output directory after one worker alone has run the loop on the
\* tasks ts, one after the other
RECURSIVE SequentialFiles(_, _)
SequentialFiles(ts, dir) ==
    IF ts = <<>> THEN dir
    ELSE LET t == task_id_tuple(Head(ts))
             name == output_file_name(t)
             polys == get_waterbodies(t, world, min_polygon_size)
             written == /\ overwrite \/ name \notin DOMAIN dir
                        /\ t \notin mask_missing
                        /\ polys # {}
         IN SequentialFiles(Tail(ts),
                IF written
                THEN [x \in DOMAIN dir \cup {name} |-> IF x = name THEN polys ELSE dir[x]]
                ELSE dir)

\* no two tasks of the chunks have one tile index, or one output name
TasksHaveTheirOwnObject ==
    \A k, l \in DOMAIN tasks_chunks :
        \A i \in DOMAIN tasks_chunks[k], j \in DOMAIN tasks_chunks[l] :
            (k # l \/ i # j) =>
                /\ task_id_tuple(tasks_chunks[k][i]) # task_id_tuple(tasks_chunks[l][j])
                /\ output_file_name(task_id_tuple(tasks_chunks[k][i]))
                       # output_file_name(task_id_tuple(tasks_chunks[l][j]))

\* a pass of worker k touches no object but the one of its task, which is
\* the object of no task of another worker
WorkerWritesItsOwnObject ==
    \A k \in DOMAIN widx :
        widx'[k] # widx[k] =>
            LET name == output_file_name(task_id_tuple(tasks_chunks[k][widx[k]])) IN
            /\ \A x \in DOMAIN files : x # name => (x \in DOMAIN files' /\ files'[x] = files[x])
            /\ DOMAIN files' \subseteq DOMAIN files \cup {name}
            /\ \A l \in DOMAIN tasks_chunks :
                  l # k => name \notin {output_file_name(t) : t \in ChunkTiles(tasks_chunks[l])}

\* when every worker is done the directory is the one a single worker
\* makes of the whole task list
DirectoryIsThatOfOneWorker ==
    AllWorkersDone => files = SequentialFiles(sorted_tasks, [x \in {} |-> {}])

\* C16: the output object of a task is named from its tile index, and no
\* two tasks have one tile index; workers running at the same time on
\* different chunks never write one object, and the directory they leave
\* is the same for every interleaving of their passes.
C16_WorkersWriteDisjointObjects ==
    /\ []TasksHaveTheirOwnObject
    /\ [][WorkerWritesItsOwnObject]_vars
    /\ []DirectoryIsThatOfOneWorker

\* C16 witness: three workers are done and have written the four objects
\* of the tiles of a lake that lies on four tiles
C16_Witness ==
    /\ tasks_chunks_count = 3
    /\ AllWorkersDone
    /\ Cardinality(DOMAIN files) = 4
    /\ pc = "load"

\* a run after the first, with overwrite off
ResumedRun == run > 1 /\ ~ overwrite

\* the outputs that were there when the run started are there, unchanged
ExistingOutputsKept ==
    ResumedRun =>
        \A t \in TilesIn(files_at_start) :
            t \in TilesIn(files) /\ OutputIn(files, t) = OutputIn(files_at_start, t)

\* the outputs left by the runs before are those of the water of this
\* run: the task list and its inputs are the same
SameInputsAsBefore ==
    \A t \in TilesIn(files_at_start) :
        OutputIn(files_at_start, t) = get_waterbodies(t, world, min_polygon_size)

\* when the loop of the run is over and no task failed in it, every tile
\* that has polygons has the output a run without failure gives it
OutputsCompleted ==
    (ResumedRun /\ pc # "tasks" /\ failed_tasks = <<>> /\ SameInputsAsBefore) =>
        \A t \in Tiles :
            get_waterbodies(t, world, min_polygon_size) # {} =>
                /\ t \in TilesIn(files)
                /\ OutputIn(files, t) = get_waterbodies(t, world, min_polygon_size)

\* C17: a run of the same task list after a run in which tiles failed,
\* with overwrite off, leaves every output that exists as it is and
\* computes the tiles that have none; when its loop is over and no task
\* failed in it, every tile that has polygons has the output that one run
\* without failure would have written.
C17_RerunResumes == ExistingOutputsKept /\ OutputsCompleted

\* C17 witness: the first run left outputs but none for a tile that has
\* polygons; the second run, with overwrite off, had no failure and wrote
\* the missing output
C17_Witness ==
    /\ ResumedRun
    /\ pc = "load"
    /\ failed_tasks = <<>>
    /\ SameInputsAsBefore
    /\ TilesIn(files_at_start) # {}
    /\ \E t \in TilesIn(files) \ TilesIn(files_at_start) :
          OutputIn(files, t) = get_waterbodies(t, world, min_polygon_size)

\* every rectangle of polygon s lies in a rectangle of polygon p
InsidePolygon(s, p) ==
    \A a \in s : \E b \in p : /\ b.x0 <= a.x0 /\ a.x1 <= b.x1
                             /\ b.y0 <= a.y0 /\ a.y1 <= b.y1

\* the pixels of a set of polygons, counted polygon by polygon
RECURSIVE SumPixels(_)
SumPixels(polys) ==
    IF polys = {} THEN 0
    ELSE LET q == CHOOSE q \in polys : TRUE IN PixelCount(q) + SumPixels(polys \ {q})

\* the polygons of an output that lie inside polygon p
SegmentsOf(out, p) == {s \in out : InsidePolygon(s, p)}

\* C18: in the output of a tile (minimum size filter off) every polygon of
\* more pixels than max_polygon_size is replaced by two or more polygons,
\* each within the bound, that do not overlap and together have exactly
\* the pixels of the polygon; a polygon within the bound is in the output
\* as it is, unsplit.
C18_OversizedPolygonsAreSegmented ==
    (run = 1 /\ min_polygon_size = 0) =>
        \A t \in TilesIn(files) :
            \A p \in LocatedPolygons(t, world) :
                LET segments == SegmentsOf(OutputIn(files, t), p) IN
                IF PixelCount(p) > max_polygon_size
                THEN /\ Cardinality(segments) >= 2
                     /\ \A s \in segments : PixelCount(s) <= max_polygon_size
                     /\ \A s1, s2 \in segments : s1 # s2 => ~ Overlaps(s1, s2)
                     /\ SumPixels(segments) = PixelCount(p)
                ELSE segments = {p}

\* C18 witness: the output of tile (0,0) holds the three segments of the
\* part of the river in the tile (2600 pixels in a row) and the two
\* segments of the canal (1200 pixels in a column)
C18_Witness ==
    /\ run = 1
    /\ min_polygon_size = 0
    /\ world = {"river", "canal"}
    /\ <<0, 0>> \in TilesIn(files)
    /\ Cardinality(OutputIn(files, <<0, 0>>)) = 5

\* the extent polygon e of tile t is one that a detection polygon overlaps
Detected(t, e) ==
    \E d \in Vectorise(t, world, detection_threshold) : Overlaps(e, d)

\* C19: in the output of a tile, an extent polygon that a detection
\* polygon overlaps is output with its own geometry and once, however many
\* detection polygons overlap it (in segments if it is over the size
\* bound); an extent polygon with no pixel at or above the detection
\* threshold has nothing in the output; and a detection polygon smaller
\* than its extent polygon is not in the output.
C19_ExtentPolygonsAtDetections ==
    run = 1 =>
        \A t \in TilesIn(files) :
            LET out == OutputIn(files, t) IN
            /\ \A e \in Vectorise(t, world, extent_threshold) :
                   IF ~ Detected(t, e) THEN SegmentsOf(out, e) = {}
                   ELSE IF PixelCount(e) > max_polygon_size THEN SegmentsOf(out, e) # {}
                   ELSE IF PixelCount(e) >= min_polygon_size THEN SegmentsOf(out, e) = {e}
                   ELSE SegmentsOf(out, e) = {}
            /\ \A d \in Vectorise(t, world, detection_threshold) :
                   d \notin Vectorise(t, world, extent_threshold) => d \notin out
            /\ \A p \in out : \E e \in Vectorise(t, world, extent_threshold) :
                   Detected(t, e) /\ InsidePolygon(p, e)

\* C19 witness: of an extent polygon with two detection polygons in it
\* ("twin", 18 pixels, two times 6 pixels at the detection threshold) and
\* one with none ("faint"), the output of tile (0,0) has the first, once
C19_Witness ==
    /\ run = 1
    /\ world = {"twin", "faint"}
    /\ Cardinality(Vectorise(<<0, 0>>, world, detection_threshold)) = 2
    /\ Cardinality(Vectorise(<<0, 0>>, world, extent_threshold)) = 2
    /\ <<0, 0>> \in TilesIn(files)
    /\ Cardinality(OutputIn(files, <<0, 0>>)) = 1
    /\ SumPixels(OutputIn(files, <<0, 0>>)) = 18

\* rectangle a lies in rectangle b
InsideRect(a, b) ==
    /\ b.x0 <= a.x0 /\ a.x1 <= b.x1
    /\ b.y0 <= a.y0 /\ a.y1 <= b.y1

\* the pixels of rectangle r that the polygons of an output have
CoveredPixels(out, r) ==
    SumPixels({{a \in p : InsideRect(a, r)} : p \in out})

\* the indicator values of the land mask that are kept
KeptValues == {1, 3}

\* C20: the tile mask raster is 1 at a pixel exactly when the land mask
\* value there is 1 or 3, and summary pixels where it is 0 are filtered
\* out: no polygon in the output of a tile has a pixel whose land mask
\* value is other than 1 or 3, and (minimum size filter off) every pixel
\* of the tile that is wet often enough for detection and has the value 1
\* or 3 is in the output.
C20_LandMaskKeepsLandAndInlandSink ==
    run = 1 =>
        \A t \in TilesIn(files) :
            LET out == OutputIn(files, t) IN
            /\ \A l \in world : \A r \in LakeRects(l) :
                   tile_raster(tile_hydrosheds_land_mask(r)) =
                       (IF tile_hydrosheds_land_mask(r) \in KeptValues THEN 1 ELSE 0)
            /\ \A p \in out : \A a \in p :
                   \E l \in world : \E r \in LakeRects(l) :
                       /\ InsideRect(a, r)
                       /\ tile_hydrosheds_land_mask(r) \in KeptValues
            /\ min_polygon_size = 0 =>
                   \A l \in world : \A r \in LakeRects(l) :
                       (/\ NonEmpty(Clip(r, t))
                        /\ Frequency(l, r) >= detection_threshold
                        /\ tile_hydrosheds_land_mask(r) \in KeptValues)
                           => CoveredPixels(out, r) = PixelCount({Clip(r, t)})

\* C20 witness: of the six parts of the lagoon, with land mask values 1,
\* 2, 3, 255, 0 and 4, the output of tile (0,1) has the two with values 1
\* and 3 (8 pixels each), and the output of tile (0,0) has the pond in
\* the inland sink
C20_Witness ==
    /\ run = 1
    /\ world = {"lagoon", "pond5"}
    /\ {tile_hydrosheds_land_mask(r) : r \in LakeRects("lagoon")} = {0, 1, 2, 3, 4, 255}
    /\ tile_hydrosheds_land_mask(CHOOSE r \in LakeRects("pond5") : TRUE) = 3
    /\ {<<0, 0>>, <<0, 1>>} \subseteq TilesIn(files)
    /\ Cardinality(OutputIn(files, <<0, 1>>)) = 2
    /\ SumPixels(OutputIn(files, <<0, 1>>)) = 16
    /\ SumPixels(OutputIn(files, <<0, 0>>)) = 5

\* the observations stored for a waterbody and a scene
ObservationsOf(uid, scene) ==
    {i \in DOMAIN observations : observations[i].uid = uid /\ observations[i].scene = scene}

\* the fraction f is k out of n
IsFraction(f, k, n) == f[2] > 0 /\ f[1] * n = k * f[2]

\* C21: for a polygon that covers N > 0 pixels of a scene, w of them wet,
\* d dry and i invalid, the observation stored holds w/N, d/N and i/N,
\* which sum to 1; for 80 wet, 15 dry and 5 invalid of 100 pixels it holds
\* 0.80, 0.15 and 0.05.
C21_FractionsOfCoveredPixels ==
    \A k \in DOMAIN extracted : \A j \in ObservationsOf(k[1], k[2]) :
        LET raster == extracted[k]
            rec == observations[j]
            w == count_pixels(raster, "wet")
            d == count_pixels(raster, "dry")
            i == count_pixels(raster, "invalid")
            N == w + d + i
        IN N > 0 =>
              /\ IsFraction(rec.wet, w, N)
              /\ IsFraction(rec.dry, d, N)
              /\ IsFraction(rec.invalid, i, N)
              /\ rec.wet[1] * rec.dry[2] * rec.invalid[2]
                 + rec.dry[1] * rec.wet[2] * rec.invalid[2]
                 + rec.invalid[1] * rec.wet[2] * rec.dry[2]
                 = rec.wet[2] * rec.dry[2] * rec.invalid[2]
              /\ (w = 80 /\ d = 15 /\ i = 5) =>
                     /\ IsFraction(rec.wet, 80, 100)
                     /\ IsFraction(rec.dry, 15, 100)
                     /\ IsFraction(rec.invalid, 5, 100)

\* C21 witness: a polygon of 100 pixels was read with 80 wet, 15 dry and
\* 5 invalid pixels, and its observation is stored
C21_Witness ==
    /\ <<"wb_a", "scene_1">> \in DOMAIN extracted
    /\ extracted[<<"wb_a", "scene_1">>] = <<<<"wet", 80>>, <<"dry", 15>>, <<"invalid", 5>>>>
    /\ \E j \in ObservationsOf("wb_a", "scene_1") :
          observations[j].wet = <<80, 100>> /\ observations[j].invalid = <<5, 100>>

\* C22: a scene with no valid pixel inside a polygon still has an
\* observation for the waterbody and the scene, with all pixels invalid
\* and none wet or dry.
C22_NoValidPixelsStillRecorded ==
    \A k \in DOMAIN extracted :
        (count_pixels(extracted[k], "wet") + count_pixels(extracted[k], "dry") = 0) =>
            /\ ObservationsOf(k[1], k[2]) # {}
            /\ \A j \in ObservationsOf(k[1], k[2]) :
                  /\ observations[j].invalid[1] = observations[j].invalid[2]
                  /\ observations[j].invalid[2] > 0
                  /\ observations[j].wet[1] = 0
                  /\ observations[j].dry[1] = 0

\* C22 witness: the first extraction of a scene found only invalid pixels
\* in the polygon of wb_b, and the observation is stored
C22_Witness ==
    /\ extractions = 1
    /\ <<"wb_b", "scene_2">> \in DOMAIN extracted
    /\ extracted[<<"wb_b", "scene_2">>] = <<<<"invalid", 4>>>>
    /\ \E j \in ObservationsOf("wb_b", "scene_2") : observations[j].invalid = <<4, 4>>

\* one observation for every pair extracted, that of the latest extraction
OneObservationPerPair ==
    /\ \A k \in DOMAIN extracted :
          /\ Cardinality(ObservationsOf(k[1], k[2])) = 1
          /\ \A j \in ObservationsOf(k[1], k[2]) :
                observations[j] = observation(k[1], k[2], extracted[k])
    /\ \A j \in DOMAIN observations :
          <<observations[j].uid, observations[j].scene>> \in DOMAIN extracted

\* an extraction of a scene leaves the observations of other scenes alone
OtherScenesUnchanged ==
    \A scene \in Scenes :
        ExtractScene(scene) =>
            /\ \A j \in DOMAIN observations :
                  observations[j].scene # scene =>
                      j \in DOMAIN observations' /\ observations'[j] = observations[j]
            /\ \A j \in DOMAIN observations' :
                  observations'[j].scene # scene => j \in DOMAIN observations

\* C23: after any number of extractions the table holds exactly one
\* observation for every (waterbody, scene) pair extracted, with the
\* values of the latest extraction; an extraction of a scene adds no
\* second record and leaves the observations of other scenes unchanged.
C23_OneObservationPerPair ==
    []OneObservationPerPair /\ [][OtherScenesUnchanged]_vars

\* C23 witness: the same scene was extracted twice and a second scene
\* once, with different pixels the second time
C23_Witness ==
    /\ extractions = 3
    /\ Len(observations) = 3
    /\ extracted[<<"wb_a", "scene_2">>] = <<<<"invalid", 100>>>>
    /\ extracted[<<"wb_a", "scene_1">>] = <<<<"wet", 80>>, <<"dry", 15>>, <<"invalid", 5>>>>
    /\ \E j \in ObservationsOf("wb_a", "scene_2") : observations[j].invalid = <<100, 100>>

\* the geometries of a frame
Geometries(wbs) == {wbs[i].geometry : i \in DOMAIN wbs}

\* polygon p of the frame is at a tile boundary and shares a border with
\* another polygon of the frame that is at a tile boundary
MergedWithAnother(wbs, p) ==
    /\ OnTileBoundary(p)
    /\ \E q \in Geometries(wbs) : q # p /\ OnTileBoundary(q) /\ Touches(p, q)

\* C24: the merge at the tile boundaries changes only polygons that are
\* merged with another polygon: a polygon that intersects no buffered tile
\* boundary, and one that does but touches no other such polygon, is in
\* the frame after the merge exactly once with the same geometry; when no
\* polygon intersects a buffered tile boundary the frame is left as it is.
C24_MergeLeavesOtherPolygons ==
    [][MergeWaterbodies =>
          /\ \A p \in Geometries(waterbodies) :
                ~ MergedWithAnother(waterbodies, p) =>
                    Cardinality({j \in DOMAIN waterbodies' : waterbodies'[j].geometry = p}) = 1
          /\ (\A p \in Geometries(waterbodies) : ~ OnTileBoundary(p)) =>
                 waterbodies' = waterbodies]_vars

\* C24 witness: after the merge the frame has a polygon of the interior
\* of a tile and a polygon that touches the buffered tile boundary from
\* inside the tile and no other polygon
C24_Witness ==
    /\ pc = "area"
    /\ world = {"shore", "pond5"}
    /\ Len(waterbodies) = 2
    /\ \E i \in DOMAIN waterbodies :
          /\ OnTileBoundary(waterbodies[i].geometry)
          /\ waterbodies[i].geometry = LakeRects("shore")
    /\ \E i \in DOMAIN waterbodies :
          /\ ~ OnTileBoundary(waterbodies[i].geometry)
          /\ waterbodies[i].geometry = LakeRects("pond5")

\* C25 as stated: after the merge at the tile boundaries no two polygons
\* of the frame touch or overlap, at a tile boundary or in the interior
\* of a tile.
C25_NoTwoPolygonsTouch ==
    pc = "area" =>
        \A i, j \in DOMAIN waterbodies :
            i # j => ~ Touches(waterbodies[i].geometry, waterbodies[j].geometry)

\* C25 amended: after the merge at the tile boundaries no two polygons of
\* the frame have a pixel in common, and no two polygons that both
\* intersect a buffered tile boundary touch; polygons that touch in the
\* interior of a tile are left apart.
C25_NoTwoBoundaryPolygonsTouch ==
    pc = "area" =>
        \A i, j \in DOMAIN waterbodies :
            i # j =>
                /\ ~ Overlaps(waterbodies[i].geometry, waterbodies[j].geometry)
                /\ (OnTileBoundary(waterbodies[i].geometry)
                    /\ OnTileBoundary(waterbodies[j].geometry))
                       => ~ Touches(waterbodies[i].geometry, waterbodies[j].geometry)

\* C25 witness: after the merge the two parts of a lake across a tile
\* boundary are one polygon, and the two segments of the canal in the
\* interior of the tile still touch
C25_Witness ==
    /\ pc = "area"
    /\ world = {"east", "canal"}
    /\ mask_missing = {}
    /\ Len(waterbodies) = 3
    /\ \E i \in DOMAIN waterbodies : PixelCount(waterbodies[i].geometry) = 16
    /\ \E i, j \in DOMAIN waterbodies :
          /\ i # j
          /\ ~ OnTileBoundary(waterbodies[i].geometry)
          /\ ~ OnTileBoundary(waterbodies[j].geometry)
          /\ Touches(waterbodies[i].geometry, waterbodies[j].geometry)

\* C26: the area filter discards exactly the polygons of less than 4500
\* m2: a polygon is in the frame after the filter if and only if its area
\* is at least 4500 m2, so that a polygon of exactly 4500 m2 is kept.
C26_AreaFilterKeepsFrom4500 ==
    [][FilterArea =>
          Geometries(waterbodies') =
              {p \in Geometries(waterbodies) : area_m2(p) >= MinAreaM2}]_vars

\* the polygons stored for tile t: those of its file, none without a file
StoredFor(t) == IF t \in TilesIn(files) THEN OutputIn(files, t) ELSE {}

\* C27: with overwrite on, when the task loop is over the intermediate
\* storage of every tile processed without error holds exactly the
\* polygons this run produced for the tile, none when it produced none;
\* and the frame loaded for the merge has no polygon of an earlier run.
C27_OverwriteLeavesNoStalePolygons ==
    /\ (pc = "load" /\ overwrite) =>
           \A t \in Tiles \ mask_missing :
               StoredFor(t) = get_waterbodies(t, world, min_polygon_size)
    /\ (pc = "merge" /\ overwrite /\ mask_missing = {}) =>
           Geometries(waterbodies) =
               UNION {get_waterbodies(t, world, min_polygon_size) : t \in Tiles}

\* polygon p lies in tile t
InTile(p, t) == \A r \in p : Clip(r, t) = r

\* C28: the polygons made by segmenting an oversized polygon inside one
\* tile stay apart in the merge at the tile boundaries: two polygons of
\* one tile that touch are not in one polygon after the merge, also when
\* both intersect a buffered tile boundary.
C28_SegmentsStayApart ==
    [][MergeWaterbodies =>
          \A p, q \in Geometries(waterbodies) :
              (/\ p # q
               /\ \E t \in Tiles : InTile(p, t) /\ InTile(q, t)
               /\ Touches(p, q))
                  => \A g \in Geometries(waterbodies') :
                         ~ (InsidePolygon(p, g) /\ InsidePolygon(q, g))]_vars

\* C29: the merge at the tile boundaries neither loses nor adds water:
\* the polygons after the merge have the pixels of the polygons before it
\* and no other, every polygon before the merge lies in exactly one
\* polygon after it, and the polygons after the merge are single-part,
\* share no pixel, and those of the merged set do not touch.
C29_MergeKeepsTheWater ==
    [][MergeWaterbodies =>
          LET in == Geometries(waterbodies)
              out == Geometries(waterbodies')
          IN /\ Len(waterbodies') = Cardinality(out)
             /\ SumPixels(out) = SumPixels(in)
             /\ \A p \in in : Cardinality({g \in out : InsidePolygon(p, g)}) = 1
             /\ \A g \in out : \A a \in g : \E q \in in : \E b \in q : InsideRect(a, b)
             /\ \A g \in out : Components(g) = {g}
             /\ \A g, h \in out :
                    g # h => /\ ~ Overlaps(g, h)
                             /\ (OnTileBoundary(g) /\ OnTileBoundary(h)) => ~ Touches(g, h)]_vars

\* C29 witness: the four parts of a lake on the corner of four tiles (9
\* pixels each) are one polygon of 36 pixels after the merge, next to a
\* polygon of the interior of a tile
C29_Witness ==
    /\ pc = "area"
    /\ world = {"corner", "twin"}
    /\ mask_missing = {}
    /\ Len(waterbodies) = 2
    /\ \E i \in DOMAIN waterbodies :
          /\ PixelCount(waterbodies[i].geometry) = 36
          /\ Cardinality(waterbodies[i].geometry) = 4
    /\ \E i \in DOMAIN waterbodies : PixelCount(waterbodies[i].geometry) = 18

\* C30: when a run has written the table, no two stored waterbodies have
\* the same ordinal, whatever the candidates of this run and of the runs
\* before it and whether update_rows is on or off.
C30_StoredOrdinalsAreDistinct ==
    pc = "done" =>
        \A i, j \in DOMAIN db : i # j => db[i].wb_id # db[j].wb_id

====
